---- MODULE Spec2Model ----
(***************************************************************************)
(* FarmRide (src/app.py): the REST API over users, drivers and rides, as a *)
(* state machine.  One action per route handler, the token_required and    *)
(* admin_required decorators included in every protected handler.          *)
(*                                                                         *)
(* Abstractions.  Columns no handler branches on and no property reads     *)
(* (dates, times, locations, photos, cargo, notes, created_at) are left    *)
(* out of the rows; a request's date and time are still parsed, and a      *)
(* string that does not parse fails the request.  The clock counts whole   *)
(* days.  A JWT is the record of its claims; its signature is valid iff    *)
(* login issued it.                                                        *)
(***************************************************************************)
EXTENDS Integers, FiniteSets, Sequences, TLC

VARIABLES
    users,      \* table users:   user_id   -> row
    drivers,    \* table drivers: driver_id -> row
    rides,      \* table rides:   ride_id   -> row
    tokens,     \* the JWTs login has signed so far (held by clients)
    now,        \* the server clock, in days
    inflight,   \* book_ride requests between their SELECT and their COMMIT
    last        \* the response to the latest completed request

vars == <<users, drivers, rides, tokens, now, inflight, last>>

-----------------------------------------------------------------------------
(* Bounds of the model *)

MaxUsers == 2
MaxDrivers == 2
MaxRides == 2
MaxTokens == 2
MaxTime == 8
MaxProcs == 2

(* Program constants *)

TokenLifetime == 7
NULL == 0

Procs == 1..MaxProcs

-----------------------------------------------------------------------------
(* Generic helpers *)

Get(data, key, default) == IF key \in DOMAIN data THEN data[key] ELSE default

HasAll(data, fields) == fields \subseteq DOMAIN data

Max(S) == CHOOSE m \in S : \A x \in S : x <= m

\* an INTEGER PRIMARY KEY column of the SQLite store: one more than the
\* largest key in use, 1 in an empty table
NewId(table) == IF DOMAIN table = {} THEN 1 ELSE Max(DOMAIN table) + 1

Insert(table, row) == table @@ (NewId(table) :> row)

Delete(table, ids) == [i \in DOMAIN table \ ids |-> table[i]]

-----------------------------------------------------------------------------
(* Responses *)

NoStats == [total_rides |-> 0, available_rides |-> 0, booked_rides |-> 0,
            completed_rides |-> 0]

Resp(op, code, error, uid, ride) ==
    [op |-> op, code |-> code, error |-> error, uid |-> uid, ride |-> ride,
     stats |-> NoStats]

-----------------------------------------------------------------------------
(* User.set_password / User.check_password: a one-way hash of the password *)

GeneratePasswordHash(password) == <<"hash", password>>

CheckPassword(user, password) == user.password_hash = GeneratePasswordHash(password)

-----------------------------------------------------------------------------
(* The credential a request presents.  kind "missing": no Authorization    *)
(* header; "malformed": a header without a second word; "jwt": a bearer    *)
(* token, validly signed iff it is in tokens.                              *)

NoHeader == [kind |-> "missing", user_id |-> NULL, username |-> "",
             is_admin |-> FALSE, exp |-> 0]

BadHeader == [kind |-> "malformed", user_id |-> NULL, username |-> "",
              is_admin |-> FALSE, exp |-> 0]

\* a token signed with another key, claiming to be an admin's
ForgedToken == [kind |-> "jwt", user_id |-> 1, username |-> "admin",
                is_admin |-> TRUE, exp |-> MaxTime + TokenLifetime + 1]

Creds == tokens \cup {NoHeader, BadHeader, ForgedToken}

\* jwt.encode in login: the claims, with exp = utcnow() + 7 days
Issue(uid) ==
    [kind |-> "jwt", user_id |-> uid, username |-> users[uid].username,
     is_admin |-> users[uid].is_admin, exp |-> now + TokenLifetime]

\* jwt.decode's expiry check.  Past exp the token is expired, before exp it
\* is not; at exp exactly the comparison is the JWT library's (exp <= now
\* in some releases, exp < now in others), so both outcomes are possible.
JwtExpired(cred) ==
    IF now > cred.exp THEN {TRUE}
    ELSE IF now = cred.exp THEN {TRUE, FALSE}
    ELSE {FALSE}

Deny(code, error) == [ok |-> FALSE, code |-> code, error |-> error, uid |-> NULL]

Allow(uid) == [ok |-> TRUE, code |-> 200, error |-> "", uid |-> uid]

\* token_required with the expiry of the token not verified
TokenRequiredNoExpiry(cred, expired) ==
    IF cred.kind = "malformed" THEN Deny(401, "Invalid token format")
    ELSE IF cred.kind = "missing" THEN Deny(401, "Token is missing")
    ELSE IF cred \notin tokens THEN Deny(401, "Invalid token")
    ELSE IF cred.user_id \notin DOMAIN users THEN Deny(401, "User not found")
    ELSE Allow(cred.user_id)

\* token_required: expired is the outcome of jwt.decode's expiry check
TokenRequired(cred, expired) ==
    IF cred.kind = "malformed" THEN Deny(401, "Invalid token format")
    ELSE IF cred.kind = "missing" THEN Deny(401, "Token is missing")
    ELSE IF cred \notin tokens THEN Deny(401, "Invalid token")
    ELSE IF expired THEN Deny(401, "Token has expired")
    ELSE IF cred.user_id \notin DOMAIN users THEN Deny(401, "User not found")
    ELSE Allow(cred.user_id)

\* admin_required without its is_admin test
AdminRequiredAnyUser(cred, expired) == TokenRequired(cred, expired)

\* admin_required: token_required, then the is_admin flag of the stored user
AdminRequired(cred, expired) ==
    LET a == TokenRequired(cred, expired) IN
    IF ~a.ok THEN a
    ELSE IF ~users[a.uid].is_admin THEN Deny(403, "Admin access required")
    ELSE a

Denied(op, a) == Resp(op, a.code, a.error, NULL, NULL)

-----------------------------------------------------------------------------
(* Request bodies *)

AdminBody == [username |-> "admin", phone_no |-> "9876543210",
              password |-> "admin123", full_name |-> "Admin User",
              is_admin |-> TRUE]

FarmerBody == [username |-> "ramesh", phone_no |-> "9876543211",
               password |-> "farmer123", full_name |-> "Ramesh Patil"]

Usernames == {"admin", "ramesh", "suresh"}
Phones == {"9876543210", "9876543211", "9876543212"}
Passwords == {"admin123", "farmer123"}

\* every combination of username and phone number, with and without
\* is_admin, and one body that lacks a required field
RegisterBodies ==
    {[username |-> u, phone_no |-> p, password |-> "farmer123", full_name |-> "F"] :
        u \in Usernames, p \in Phones}
    \cup {[username |-> u, phone_no |-> p, password |-> "admin123", full_name |-> "A",
           is_admin |-> TRUE] : u \in Usernames, p \in Phones}
    \cup {[username |-> "ramesh", password |-> "farmer123", full_name |-> "F"]}

LoginBodies ==
    {[username |-> u, password |-> p] : u \in Usernames, p \in Passwords}
    \cup {[username |-> "admin"]}

-----------------------------------------------------------------------------
Init ==
    /\ users = <<>>
    /\ drivers = <<>>
    /\ rides = <<>>
    /\ tokens = {}
    /\ now = 0
    /\ inflight = [p \in Procs |-> [pc |-> "idle", uid |-> NULL, ride |-> NULL]]
    /\ last = Resp("none", 0, "", NULL, NULL)

-----------------------------------------------------------------------------
(* POST /api/register *)

\* register without its phone number lookup
RegisterErrorNoPhoneCheck(data) ==
    IF ~HasAll(data, {"username", "phone_no", "password", "full_name"})
    THEN "Missing required field"
    ELSE IF \E i \in DOMAIN users : users[i].username = data.username
    THEN "Username already exists"
    ELSE ""

RegisterError(data) ==
    IF ~HasAll(data, {"username", "phone_no", "password", "full_name"})
    THEN "Missing required field"
    ELSE IF \E i \in DOMAIN users : users[i].username = data.username
    THEN "Username already exists"
    ELSE IF \E i \in DOMAIN users : users[i].phone_no = data.phone_no
    THEN "Phone number already registered"
    ELSE ""

RegisterCode(data) ==
    CASE RegisterError(data) = "Missing required field" -> 400
      [] RegisterError(data) \in {"Username already exists",
                                  "Phone number already registered"} -> 409
      [] OTHER -> 201

NewUser(data) ==
    [username |-> data.username, phone_no |-> data.phone_no,
     password_hash |-> GeneratePasswordHash(data.password),
     is_admin |-> Get(data, "is_admin", FALSE)]

Register(data) ==
    LET code == RegisterCode(data) IN
    /\ code = 201 => NewId(users) <= MaxUsers
    /\ users' = IF code = 201 THEN Insert(users, NewUser(data)) ELSE users
    /\ last' = Resp("register", code, RegisterError(data),
                    IF code = 201 THEN NewId(users) ELSE NULL, NULL)
    /\ UNCHANGED <<drivers, rides, tokens, now, inflight>>

(* POST /api/login *)

LoginUser(data) ==
    {i \in DOMAIN users : users[i].username = data.username
                          /\ CheckPassword(users[i], data.password)}

Login(data) ==
    IF ~HasAll(data, {"username", "password"})
    THEN /\ last' = Resp("login", 400, "Username and password required", NULL, NULL)
         /\ UNCHANGED <<users, drivers, rides, tokens, now, inflight>>
    ELSE IF LoginUser(data) = {}
    THEN /\ last' = Resp("login", 401, "Invalid username or password", NULL, NULL)
         /\ UNCHANGED <<users, drivers, rides, tokens, now, inflight>>
    ELSE \E i \in LoginUser(data) :
         /\ Cardinality(tokens \cup {Issue(i)}) <= MaxTokens
         /\ tokens' = tokens \cup {Issue(i)}
         /\ last' = Resp("login", 200, "", i, NULL)
         /\ UNCHANGED <<users, drivers, rides, now, inflight>>

-----------------------------------------------------------------------------
(* POST /api/logout and GET /api/profile: token_required, then a reply *)

\* a logout that revokes the token it was called with
LogoutRevoking(cred) ==
    \E expired \in JwtExpired(cred) :
    LET a == TokenRequired(cred, expired) IN
    /\ last' = IF a.ok THEN Resp("logout", 200, "", a.uid, NULL)
                ELSE Denied("logout", a)
    /\ tokens' = IF a.ok THEN tokens \ {cred} ELSE tokens
    /\ UNCHANGED <<users, drivers, rides, now, inflight>>

Logout(cred) ==
    \E expired \in JwtExpired(cred) :
    LET a == TokenRequired(cred, expired) IN
    /\ last' = IF a.ok THEN Resp("logout", 200, "", a.uid, NULL)
                ELSE Denied("logout", a)
    /\ UNCHANGED <<users, drivers, rides, tokens, now, inflight>>

GetProfile(cred) ==
    \E expired \in JwtExpired(cred) :
    LET a == TokenRequired(cred, expired) IN
    /\ last' = IF a.ok THEN Resp("profile", 200, "", a.uid, NULL)
                ELSE Denied("profile", a)
    /\ UNCHANGED <<users, drivers, rides, tokens, now, inflight>>

\* the passage of time between requests
Tick ==
    /\ now < MaxTime
    /\ now' = now + 1
    /\ UNCHANGED <<users, drivers, rides, tokens, inflight, last>>

-----------------------------------------------------------------------------
(* Drivers *)

SureshBody == [driver_name |-> "Suresh Jadhav", phone_no |-> "9876543220",
               vehicle_name |-> "John Deere 5050D", vehicle_type |-> "tractor",
               vehicle_id |-> "MH15-TR-1234"]

VikramBody == [driver_name |-> "Vikram Singh", phone_no |-> "9876543221",
               vehicle_name |-> "Tata 407", vehicle_type |-> "mini-truck",
               vehicle_id |-> "MH15-MT-5678"]

DriverBodies ==
    {SureshBody, VikramBody,
     [driver_name |-> "Prakash More", phone_no |-> "9876543222"]}

DriverPatches ==
    {[driver_name |-> "Ganesh Desai", vehicle_type |-> "truck"],
     [phone_no |-> "9876543223"]}

DriverIds == 1..MaxDrivers

CreateDriverError(data) ==
    IF ~HasAll(data, {"driver_name", "phone_no", "vehicle_name", "vehicle_type",
                      "vehicle_id"})
    THEN "Missing required field"
    ELSE IF \E i \in DOMAIN drivers : drivers[i].vehicle_id = data.vehicle_id
    THEN "Vehicle ID already exists"
    ELSE ""

NewDriver(data) ==
    [driver_name |-> data.driver_name, vehicle_type |-> data.vehicle_type,
     vehicle_id |-> data.vehicle_id]

(* POST /api/drivers *)
CreateDriver(cred, data) ==
    \E expired \in JwtExpired(cred) :
    LET a == AdminRequired(cred, expired)
        err == CreateDriverError(data)
    IN
    /\ UNCHANGED <<users, rides, tokens, now, inflight>>
    /\ IF ~a.ok
       THEN last' = Denied("create_driver", a) /\ UNCHANGED drivers
       ELSE IF err = "Missing required field"
       THEN last' = Resp("create_driver", 400, err, NULL, NULL) /\ UNCHANGED drivers
       ELSE IF err = "Vehicle ID already exists"
       THEN last' = Resp("create_driver", 409, err, NULL, NULL) /\ UNCHANGED drivers
       ELSE /\ NewId(drivers) <= MaxDrivers
            /\ drivers' = Insert(drivers, NewDriver(data))
            /\ last' = Resp("create_driver", 201, "", a.uid, NULL)

PatchDriver(driver, data) ==
    [driver_name |-> Get(data, "driver_name", driver.driver_name),
     vehicle_type |-> Get(data, "vehicle_type", driver.vehicle_type),
     vehicle_id |-> driver.vehicle_id]

\* an update that also refreshes the driver's name and vehicle type in the
\* rides the driver owns
UpdateDriverRefreshingRides(cred, driver_id, data) ==
    \E expired \in JwtExpired(cred) :
    LET a == AdminRequired(cred, expired) IN
    /\ UNCHANGED <<users, tokens, now, inflight>>
    /\ IF ~a.ok
       THEN last' = Denied("update_driver", a) /\ UNCHANGED <<drivers, rides>>
       ELSE IF driver_id \notin DOMAIN drivers
       THEN last' = Resp("update_driver", 404, "Driver not found", NULL, NULL)
            /\ UNCHANGED <<drivers, rides>>
       ELSE /\ drivers' = [drivers EXCEPT ![driver_id] = PatchDriver(@, data)]
            /\ rides' = [r \in DOMAIN rides |->
                            IF rides[r].driver_id = driver_id
                            THEN [rides[r] EXCEPT
                                    !.driver_name = drivers'[driver_id].driver_name,
                                    !.vehicle_type = drivers'[driver_id].vehicle_type]
                            ELSE rides[r]]
            /\ last' = Resp("update_driver", 200, "", a.uid, NULL)

(* PUT /api/drivers/<driver_id> *)
UpdateDriver(cred, driver_id, data) ==
    \E expired \in JwtExpired(cred) :
    LET a == AdminRequired(cred, expired) IN
    /\ UNCHANGED <<users, rides, tokens, now, inflight>>
    /\ IF ~a.ok
       THEN last' = Denied("update_driver", a) /\ UNCHANGED drivers
       ELSE IF driver_id \notin DOMAIN drivers
       THEN last' = Resp("update_driver", 404, "Driver not found", NULL, NULL)
            /\ UNCHANGED drivers
       ELSE /\ drivers' = [drivers EXCEPT ![driver_id] = PatchDriver(@, data)]
            /\ last' = Resp("update_driver", 200, "", a.uid, NULL)

\* a relationship that does not cascade
RidesOfNoCascade(driver_id) == {}

\* Driver.rides, cascade='all, delete-orphan': the rides the driver owns
RidesOf(driver_id) == {r \in DOMAIN rides : rides[r].driver_id = driver_id}

(* DELETE /api/drivers/<driver_id> *)
DeleteDriver(cred, driver_id) ==
    \E expired \in JwtExpired(cred) :
    LET a == AdminRequired(cred, expired) IN
    /\ UNCHANGED <<users, tokens, now, inflight>>
    /\ IF ~a.ok
       THEN last' = Denied("delete_driver", a) /\ UNCHANGED <<drivers, rides>>
       ELSE IF driver_id \notin DOMAIN drivers
       THEN last' = Resp("delete_driver", 404, "Driver not found", NULL, NULL)
            /\ UNCHANGED <<drivers, rides>>
       ELSE /\ rides' = Delete(rides, RidesOf(driver_id))
            /\ drivers' = Delete(drivers, {driver_id})
            /\ last' = Resp("delete_driver", 200, "", a.uid, NULL)

-----------------------------------------------------------------------------
(* Rides *)

RideIds == 1..MaxRides

\* the values a request may put in ride_status: the three the column's
\* comment names, and one it does not
StatusInputs == {"available", "booked", "completed", "cancelled"}

\* the strings of the requests that datetime.fromisoformat parses; on any
\* other it raises ValueError
IsoFormats == {"2026-01-01", "2026-01-01T08:00", "2026-02-01"}

\* the date and time of a request body, where present, parse
ParsesDateTime(data) ==
    /\ "date" \in DOMAIN data => data.date \in IsoFormats
    /\ "time" \in DOMAIN data => data.time \in IsoFormats

RideBody(driver_id) ==
    [driver_id |-> driver_id, date |-> "2026-01-01", time |-> "2026-01-01T08:00",
     start_location |-> "Nashik Market", destination |-> "Trimbakeshwar"]

RideBodies ==
    {RideBody(d) : d \in DriverIds}
    \cup {RideBody(d) @@ [ride_status |-> s] : d \in DriverIds, s \in StatusInputs}
    \cup {[driver_id |-> 1, date |-> "2026-01-01"]}

\* the bodies the ride lifecycle is driven with: the first driver's rides
\* with and without a status, a ride for each other driver id, and a body
\* that lacks required fields
LifecycleRideBodies ==
    {RideBody(d) : d \in DriverIds}
    \cup {RideBody(1) @@ [ride_status |-> s] : s \in {"booked", "cancelled"}}
    \cup {[driver_id |-> 1, date |-> "2026-01-01"]}
    \cup {[RideBody(1) EXCEPT !.date = "next monday"]}

\* the patches the ride lifecycle is driven with: each status alone, a
\* field that is not the status, and 'booked' with a user_id of the
\* client's choosing
RidePatches ==
    {[ride_status |-> s] : s \in StatusInputs}
    \cup {[notes |-> "after 9am"]}
    \cup {[ride_status |-> "booked", user_id |-> 1]}

\* the patches of a forced booking: 'booked' alone, with a date that parses
\* and with one that does not, and the statuses that are not 'booked'
ForcePatches ==
    {[ride_status |-> s] : s \in {"booked", "completed", "available"}}
    \cup {[ride_status |-> "booked", date |-> d] : d \in {"2026-02-01", "next monday"}}

NewRide(data) ==
    [driver_id |-> data.driver_id,
     user_id |-> NULL,
     driver_name |-> drivers[data.driver_id].driver_name,
     vehicle_type |-> drivers[data.driver_id].vehicle_type,
     vehicle_id |-> drivers[data.driver_id].vehicle_id,
     ride_status |-> Get(data, "ride_status", "available")]

(* POST /api/rides *)
CreateRide(cred, data) ==
    \E expired \in JwtExpired(cred) :
    LET a == AdminRequired(cred, expired) IN
    /\ UNCHANGED <<users, drivers, tokens, now, inflight>>
    /\ IF ~a.ok
       THEN last' = Denied("create_ride", a) /\ UNCHANGED rides
       ELSE IF ~HasAll(data, {"driver_id", "date", "time", "start_location",
                              "destination"})
       THEN last' = Resp("create_ride", 400, "Missing required field", NULL, NULL)
            /\ UNCHANGED rides
       ELSE IF data.driver_id \notin DOMAIN drivers
       THEN last' = Resp("create_ride", 404, "Driver not found", NULL, NULL)
            /\ UNCHANGED rides
       ELSE IF ~ParsesDateTime(data)
       THEN last' = Resp("create_ride", 500, "Invalid isoformat string", NULL, NULL)
            /\ UNCHANGED rides
       ELSE /\ NewId(rides) <= MaxRides
            /\ rides' = Insert(rides, NewRide(data))
            /\ last' = Resp("create_ride", 201, "", a.uid, NewId(rides))

\* an update that stamps the acting user only on a ride nobody has booked
PatchRideKeepingBooker(ride, data, uid) ==
    IF "ride_status" \in DOMAIN data
    THEN [ride EXCEPT !.ride_status = data.ride_status,
                      !.user_id = IF data.ride_status = "booked" /\ @ = NULL
                                  THEN uid ELSE @]
    ELSE ride

\* an update that takes the booking user from the request body when the
\* body names one
PatchRideUserFromBody(ride, data, uid) ==
    IF "ride_status" \in DOMAIN data
    THEN [ride EXCEPT !.ride_status = data.ride_status,
                      !.user_id = IF data.ride_status = "booked"
                                  THEN Get(data, "user_id", uid) ELSE @]
    ELSE ride

PatchRide(ride, data, uid) ==
    IF "ride_status" \in DOMAIN data
    THEN [ride EXCEPT !.ride_status = data.ride_status,
                      !.user_id = IF data.ride_status = "booked" THEN uid ELSE @]
    ELSE ride

(* PUT /api/rides/<ride_id> *)
UpdateRide(cred, ride_id, data) ==
    \E expired \in JwtExpired(cred) :
    LET a == TokenRequired(cred, expired) IN
    /\ UNCHANGED <<users, drivers, tokens, now, inflight>>
    /\ IF ~a.ok
       THEN last' = Denied("update_ride", a) /\ UNCHANGED rides
       ELSE IF ride_id \notin DOMAIN rides
       THEN last' = Resp("update_ride", 404, "Ride not found", NULL, NULL)
            /\ UNCHANGED rides
       ELSE IF ~ParsesDateTime(data)
       THEN last' = Resp("update_ride", 500, "Invalid isoformat string", NULL, NULL)
            /\ UNCHANGED rides
       ELSE /\ rides' = [rides EXCEPT ![ride_id] = PatchRide(@, data, a.uid)]
            /\ last' = Resp("update_ride", 200, "", a.uid, ride_id)

(* DELETE /api/rides/<ride_id> *)
DeleteRide(cred, ride_id) ==
    \E expired \in JwtExpired(cred) :
    LET a == AdminRequired(cred, expired) IN
    /\ UNCHANGED <<users, drivers, tokens, now, inflight>>
    /\ IF ~a.ok
       THEN last' = Denied("delete_ride", a) /\ UNCHANGED rides
       ELSE IF ride_id \notin DOMAIN rides
       THEN last' = Resp("delete_ride", 404, "Ride not found", NULL, NULL)
            /\ UNCHANGED rides
       ELSE /\ rides' = Delete(rides, {ride_id})
            /\ last' = Resp("delete_ride", 200, "", a.uid, NULL)

-----------------------------------------------------------------------------
(* POST /api/rides/<ride_id>/book *)

\* book_ride without its availability check
BookErrorUnchecked(ride_id) ==
    IF ride_id \notin DOMAIN rides THEN "Ride not found" ELSE ""

\* the part of book_ride up to the availability check, on the row as the
\* handler's SELECT found it: the error it returns, "" when it goes on
BookError(ride_id) ==
    IF ride_id \notin DOMAIN rides THEN "Ride not found"
    ELSE IF rides[ride_id].ride_status # "available"
    THEN "Ride is not available for booking"
    ELSE ""

BookErrorCode(error) == IF error = "Ride not found" THEN 404 ELSE 400

\* a booking that keeps the booking user a ride already has
BookWriteFirstWins(ride, uid) ==
    [ride EXCEPT !.ride_status = "booked",
                 !.user_id = IF @ = NULL THEN uid ELSE @]

\* the two assignments of book_ride, as the UPDATE its commit sends
BookWrite(ride, uid) == [ride EXCEPT !.ride_status = "booked", !.user_id = uid]

\* a book_ride that assigns the booking user before its availability check
\* and does not roll back when the check fails
BookRideStampingFirst(cred, ride_id) ==
    \E expired \in JwtExpired(cred) :
    LET a == TokenRequired(cred, expired)
        err == BookError(ride_id)
    IN
    /\ UNCHANGED <<users, drivers, tokens, now, inflight>>
    /\ IF ~a.ok
       THEN last' = Denied("book_ride", a) /\ UNCHANGED rides
       ELSE IF err = "Ride not found"
       THEN last' = Resp("book_ride", 404, err, NULL, NULL) /\ UNCHANGED rides
       ELSE IF err # ""
       THEN /\ last' = Resp("book_ride", BookErrorCode(err), err, NULL, NULL)
            /\ rides' = [rides EXCEPT ![ride_id].user_id = a.uid]
       ELSE /\ rides' = [rides EXCEPT ![ride_id] = BookWrite(@, a.uid)]
            /\ last' = Resp("book_ride", 200, "", a.uid, ride_id)

\* a request that runs from its SELECT to its COMMIT with no other request
\* in between
BookRide(cred, ride_id) ==
    \E expired \in JwtExpired(cred) :
    LET a == TokenRequired(cred, expired)
        err == BookError(ride_id)
    IN
    /\ UNCHANGED <<users, drivers, tokens, now, inflight>>
    /\ IF ~a.ok
       THEN last' = Denied("book_ride", a) /\ UNCHANGED rides
       ELSE IF err # ""
       THEN last' = Resp("book_ride", BookErrorCode(err), err, NULL, NULL)
            /\ UNCHANGED rides
       ELSE /\ rides' = [rides EXCEPT ![ride_id] = BookWrite(@, a.uid)]
            /\ last' = Resp("book_ride", 200, "", a.uid, ride_id)

\* the same handler in two steps, for requests served concurrently: the
\* SELECT and the check on what it returned ...
BookBegin(p, cred, ride_id) ==
    \E expired \in JwtExpired(cred) :
    LET a == TokenRequired(cred, expired)
        err == BookError(ride_id)
    IN
    /\ inflight[p].pc = "idle"
    /\ UNCHANGED <<users, drivers, rides, tokens, now>>
    /\ IF ~a.ok
       THEN last' = Denied("book_ride", a) /\ UNCHANGED inflight
       ELSE IF err # ""
       THEN last' = Resp("book_ride", BookErrorCode(err), err, NULL, NULL)
            /\ UNCHANGED inflight
       ELSE /\ inflight' = [inflight EXCEPT ![p] =
                                [pc |-> "loaded", uid |-> a.uid, ride |-> ride_id]]
            /\ UNCHANGED last

\* ... and the UPDATE and COMMIT; an UPDATE that matches no row (the ride
\* was deleted meanwhile) raises, and the handler rolls back and answers 500
BookCommit(p) ==
    LET req == inflight[p] IN
    /\ req.pc = "loaded"
    /\ inflight' = [inflight EXCEPT ![p] = [pc |-> "idle", uid |-> NULL, ride |-> NULL]]
    /\ UNCHANGED <<users, drivers, tokens, now>>
    /\ IF req.ride \notin DOMAIN rides
       THEN last' = Resp("book_ride", 500, "StaleDataError", NULL, NULL)
            /\ UNCHANGED rides
       ELSE /\ rides' = [rides EXCEPT ![req.ride] = BookWrite(@, req.uid)]
            /\ last' = Resp("book_ride", 200, "", req.uid, req.ride)

-----------------------------------------------------------------------------
(* GET /api/dashboard/admin *)

\* a count that takes every ride not available as the status asked for
CountRidesLoose(status) ==
    Cardinality({r \in DOMAIN rides :
                    rides[r].ride_status = status
                    \/ (status = "booked" /\ rides[r].ride_status # "available")})

CountRides(status) ==
    Cardinality({r \in DOMAIN rides : rides[r].ride_status = status})

AdminStats ==
    [total_rides |-> Cardinality(DOMAIN rides),
     available_rides |-> CountRides("available"),
     booked_rides |-> CountRides("booked"),
     completed_rides |-> CountRides("completed")]

AdminDashboard(cred) ==
    \E expired \in JwtExpired(cred) :
    LET a == AdminRequired(cred, expired) IN
    /\ UNCHANGED <<users, drivers, rides, tokens, now, inflight>>
    /\ last' = IF ~a.ok THEN Denied("admin_dashboard", a)
                ELSE [Resp("admin_dashboard", 200, "", a.uid, NULL)
                        EXCEPT !.stats = AdminStats]

-----------------------------------------------------------------------------
(* The specifications.  Each takes the handlers' inputs from small sets. *)

\* the signed tokens of admins
AdminTokens == {tok \in tokens : users[tok.user_id].is_admin}

AdminLogin == [username |-> AdminBody.username, password |-> AdminBody.password]

FarmerLogin == [username |-> FarmerBody.username, password |-> FarmerBody.password]

\* registration and login, with every clash of username and phone number
NextUsers ==
    \/ \E data \in RegisterBodies : Register(data)
    \/ \E data \in LoginBodies : Login(data)

SpecUsers == Init /\ [][NextUsers]_vars

\* the ride lifecycle, one request at a time with a signed token, on a clock
\* that stands still
Next ==
    \/ \E data \in {AdminBody, FarmerBody} : Register(data)
    \/ \E data \in {AdminLogin, FarmerLogin} : Login(data)
    \/ \E cred \in AdminTokens, data \in {SureshBody} :
          CreateDriver(cred, data)
    \/ \E cred \in AdminTokens, d \in DriverIds : DeleteDriver(cred, d)
    \/ \E cred \in AdminTokens, data \in LifecycleRideBodies : CreateRide(cred, data)
    \/ \E cred \in tokens, r \in RideIds, data \in RidePatches :
          UpdateRide(cred, r, data)
    \/ \E cred \in AdminTokens, r \in RideIds : DeleteRide(cred, r)
    \/ \E cred \in tokens, r \in RideIds : BookRide(cred, r)
    \/ \E cred \in AdminTokens : AdminDashboard(cred)

Spec == Init /\ [][Next]_vars

\* the admin-only routes: drivers and the rides they own
NextAdmin ==
    \/ \E data \in {AdminBody, FarmerBody} : Register(data)
    \/ \E data \in {AdminLogin, FarmerLogin} : Login(data)
    \/ \E cred \in tokens, data \in DriverBodies : CreateDriver(cred, data)
    \/ \E cred \in tokens, d \in DriverIds, data \in DriverPatches :
          UpdateDriver(cred, d, data)
    \/ \E cred \in tokens, d \in DriverIds : DeleteDriver(cred, d)
    \/ \E cred \in tokens, data \in {RideBody(d) : d \in DriverIds} :
          CreateRide(cred, data)
    \/ \E cred \in tokens, r \in RideIds : DeleteRide(cred, r)
    \/ \E cred \in tokens : AdminDashboard(cred)

SpecAdmin == Init /\ [][NextAdmin]_vars

\* the token's life: the clock advances between requests
NextAuth ==
    \/ \E data \in {AdminBody, FarmerBody} : Register(data)
    \/ \E data \in {AdminLogin, FarmerLogin} : Login(data)
    \/ \E cred \in Creds : Logout(cred)
    \/ \E cred \in Creds : GetProfile(cred)
    \/ Tick

SpecAuth == Init /\ [][NextAuth]_vars

\* book_ride requests served concurrently
NextRace ==
    \/ \E data \in {AdminBody, FarmerBody} : Register(data)
    \/ \E data \in {AdminLogin, FarmerLogin} : Login(data)
    \/ \E cred \in AdminTokens, data \in {SureshBody} : CreateDriver(cred, data)
    \/ \E cred \in AdminTokens, data \in {RideBody(1)} :
          CreateRide(cred, data)
    \/ \E cred \in AdminTokens, r \in RideIds : DeleteRide(cred, r)
    \/ \E p \in Procs, cred \in tokens, r \in RideIds : BookBegin(p, cred, r)
    \/ \E p \in Procs : BookCommit(p)

SpecRace == Init /\ [][NextRace]_vars

\* a patch of update_ride that names the driver's columns, which the
\* handler does not read
DriverFieldsPatch ==
    [driver_id |-> 2, driver_name |-> "Ganesh Desai", vehicle_type |-> "truck",
     vehicle_id |-> "MH15-TK-9999"]

\* rides while their drivers are edited, deleted and created again, the
\* admin acting
NextDenorm ==
    \/ \E data \in {AdminBody} : Register(data)
    \/ \E data \in {AdminLogin} : Login(data)
    \/ \E cred \in AdminTokens, data \in {SureshBody, VikramBody} :
          CreateDriver(cred, data)
    \/ \E cred \in AdminTokens, d \in DriverIds, data \in DriverPatches :
          UpdateDriver(cred, d, data)
    \/ \E cred \in AdminTokens, d \in DriverIds : DeleteDriver(cred, d)
    \/ \E cred \in AdminTokens, data \in {RideBody(d) : d \in DriverIds} :
          CreateRide(cred, data)
    \/ \E cred \in AdminTokens, r \in RideIds, data \in {DriverFieldsPatch} :
          UpdateRide(cred, r, data)
    \/ \E cred \in AdminTokens, r \in RideIds : BookRide(cred, r)
    \/ \E cred \in AdminTokens, r \in RideIds : DeleteRide(cred, r)

SpecDenorm == Init /\ [][NextDenorm]_vars

\* rides that start available and are booked, and updated, by the admin and
\* by the farmer
NextForce ==
    \/ \E data \in {AdminBody, FarmerBody} : Register(data)
    \/ \E data \in {AdminLogin, FarmerLogin} : Login(data)
    \/ \E cred \in AdminTokens, data \in {SureshBody} : CreateDriver(cred, data)
    \/ \E cred \in AdminTokens, data \in {RideBody(1)} : CreateRide(cred, data)
    \/ \E cred \in tokens, r \in RideIds, data \in ForcePatches :
          UpdateRide(cred, r, data)
    \/ \E cred \in tokens, r \in RideIds : BookRide(cred, r)

SpecForce == Init /\ [][NextForce]_vars

-----------------------------------------------------------------------------
(* Properties *)

\* a signed token that is not yet at its expiry and whose user is stored:
\* every protected route lets it through
Accepted(cred) ==
    /\ cred \in tokens
    /\ now < cred.exp
    /\ cred.user_id \in DOMAIN users

\* the step is a request, with a signed token, that addresses ride r or the
\* driver that owns it
OperationOn(r) ==
    \E cred \in tokens :
        \/ last'.op = "update_ride" /\ \E data \in RidePatches : UpdateRide(cred, r, data)
        \/ last'.op = "book_ride" /\ BookRide(cred, r)
        \/ last'.op = "delete_ride" /\ DeleteRide(cred, r)
        \/ last'.op = "delete_driver" /\ DeleteDriver(cred, rides[r].driver_id)

\* C1: book on an available ride by an authenticated user succeeds and
\* leaves the ride booked by that user; a ride stays as it is while no
\* request addresses it; and book on a booked ride, by any user, fails
\* with 400 "not available" and changes no ride.  So a second book, with
\* no other operation on the ride in between, fails.
C1_BookThenNotAvailable ==
    [][ /\ last'.op = "book_ride" =>
             \A cred \in tokens, r \in DOMAIN rides :
                 (Accepted(cred) /\ BookRide(cred, r)) =>
                     /\ rides[r].ride_status = "available" =>
                            /\ last'.code = 200
                            /\ rides' = [rides EXCEPT ![r].ride_status = "booked",
                                                      ![r].user_id = cred.user_id]
                     /\ rides[r].ride_status = "booked" =>
                            /\ last'.code = 400
                            /\ last'.error = "Ride is not available for booking"
                            /\ rides' = rides
        /\ rides' # rides =>
             \A r \in DOMAIN rides :
                 (r \notin DOMAIN rides' \/ rides'[r] # rides[r]) => OperationOn(r)
      ]_vars

\* C1 witness: a book was refused on a ride that a user has booked
C1_Witness ==
    /\ last.op = "book_ride"
    /\ last.code = 400
    /\ \E r \in DOMAIN rides :
          rides[r].ride_status = "booked" /\ rides[r].user_id \in DOMAIN users

\* C2: every stored ride's status is available, booked or completed
C2_StatusEnumerated ==
    \A r \in DOMAIN rides :
        rides[r].ride_status \in {"available", "booked", "completed"}

\* C3: a ride has a booking user only when its status is booked or
\* completed; no available ride has one
C3_BookingUserOnlyWhenBooked ==
    \A r \in DOMAIN rides :
        rides[r].user_id # NULL => rides[r].ride_status \in {"booked", "completed"}

\* C4: deleting a driver removes the driver row and exactly the rides it
\* owns, every other driver, ride and user staying as it was; create_ride
\* for a driver that does not exist answers 404 and stores nothing; so
\* every stored ride's driver_id is the id of a stored driver.
C4_CascadeDelete ==
    /\ [](\A r \in DOMAIN rides : rides[r].driver_id \in DOMAIN drivers)
    /\ [][ /\ \A cred \in tokens, d \in DOMAIN drivers :
                 (/\ last'.op = "delete_driver"
                  /\ Accepted(cred) /\ users[cred.user_id].is_admin
                  /\ DeleteDriver(cred, d)) =>
                     /\ last'.code = 200
                     /\ drivers' = [i \in DOMAIN drivers \ {d} |-> drivers[i]]
                     /\ rides' = [r \in {x \in DOMAIN rides : rides[x].driver_id # d}
                                     |-> rides[r]]
                     /\ users' = users
           /\ \A cred \in tokens, d \in DriverIds \ DOMAIN drivers :
                 (/\ last'.op = "create_ride"
                  /\ Accepted(cred) /\ users[cred.user_id].is_admin
                  /\ CreateRide(cred, RideBody(d))) =>
                     /\ last'.code = 404
                     /\ rides' = rides
          ]_vars

\* C4 witness: a driver was deleted, and a driver and a ride of another
\* driver are still stored
C4_Witness ==
    /\ last.op = "delete_driver"
    /\ last.code = 200
    /\ DOMAIN drivers = {2}
    /\ DOMAIN rides = {2}

\* C5: no two users share a username or a phone number; a complete
\* register request that repeats a stored username or phone number
\* answers 409 and leaves users as it was, an incomplete one answers 400
\* and leaves users as it was, and a complete one with a fresh username
\* and phone number answers 201 and adds exactly one user, with them.
C5_UniqueUsers ==
    /\ [](\A i, j \in DOMAIN users :
             i # j => /\ users[i].username # users[j].username
                      /\ users[i].phone_no # users[j].phone_no)
    /\ [][ \A data \in RegisterBodies :
             Register(data) =>
               IF ~({"username", "phone_no", "password", "full_name"}
                       \subseteq DOMAIN data)
               THEN last'.code = 400 /\ users' = users
               ELSE IF \E i \in DOMAIN users :
                          \/ users[i].username = data.username
                          \/ users[i].phone_no = data.phone_no
               THEN last'.code = 409 /\ users' = users
               ELSE /\ last'.code = 201
                    /\ \E id \in DOMAIN users' \ DOMAIN users :
                          /\ DOMAIN users' = DOMAIN users \cup {id}
                          /\ users'[id].username = data.username
                          /\ users'[id].phone_no = data.phone_no
                    /\ \A i \in DOMAIN users : users'[i] = users[i]
          ]_vars

\* C5 witness: a registration was refused with 409 while two users with
\* different usernames and phone numbers are stored
C5_Witness ==
    /\ last.op = "register"
    /\ last.code = 409
    /\ last.error = "Phone number already registered"
    /\ Cardinality(DOMAIN users) = 2

\* the step is a request to an admin-only route with credential cred
AdminOnlyStep(cred) ==
    \/ \E data \in DriverBodies : CreateDriver(cred, data)
    \/ \E d \in DriverIds, data \in DriverPatches : UpdateDriver(cred, d, data)
    \/ \E d \in DriverIds : DeleteDriver(cred, d)
    \/ \E d \in DriverIds : CreateRide(cred, RideBody(d))
    \/ \E r \in RideIds : DeleteRide(cred, r)
    \/ AdminDashboard(cred)

\* C6: an admin-only route called with a valid token of a user who is not
\* an admin answers 403 and leaves drivers and rides as they were; and a
\* step that creates, updates or deletes a driver, or creates or deletes a
\* ride, is a request whose resolved user is an admin.
C6_AdminOnly ==
    [][ /\ \A cred \in tokens :
             (/\ Accepted(cred) /\ ~users[cred.user_id].is_admin
              /\ AdminOnlyStep(cred)) =>
                 /\ last'.code = 403
                 /\ UNCHANGED <<drivers, rides>>
        /\ (drivers' # drivers \/ DOMAIN rides' # DOMAIN rides) =>
             /\ last'.uid \in DOMAIN users
             /\ users[last'.uid].is_admin
      ]_vars

\* C6 witness: deleting a stored driver that owns a ride was refused 403
C6_Witness ==
    /\ last.op = "delete_driver"
    /\ last.code = 403
    /\ \E r \in DOMAIN rides : rides[r].driver_id \in DOMAIN drivers
    /\ \E tok \in tokens : ~users[tok.user_id].is_admin

\* the step is a request to a protected route of SpecAuth with credential cred
ProtectedStep(cred) == Logout(cred) \/ GetProfile(cred)

\* the step is a successful login
LoginStep == \E data \in {AdminLogin, FarmerLogin} : Login(data) /\ last'.code = 200

\* C7 as claimed: a token issued at T expires at T + 7 days; presented at
\* any t with T < t <= T + 7 days it is accepted and the handler runs as
\* its user, and at any t > T + 7 days it is rejected as expired.
C7_AcceptedThroughExpiry ==
    [][ /\ LoginStep =>
             \E tok \in tokens' :
                 tok.user_id = last'.uid /\ tok.exp = now + 7
        /\ \A tok \in tokens :
             ProtectedStep(tok) =>
                 /\ (tok.exp - 7 < now /\ now <= tok.exp) =>
                        (last'.code = 200 /\ last'.uid = tok.user_id)
                 /\ now > tok.exp =>
                        (last'.code = 401 /\ last'.error = "Token has expired")
      ]_vars

\* C7 as amended: a token issued at T expires at T + 7 days; presented at
\* any t with T <= t < T + 7 days it is accepted and the handler runs as
\* its user, and at any t > T + 7 days it is rejected as expired (at
\* t = T + 7 days exactly the JWT library decides).
C7_AcceptedBeforeExpiry ==
    [][ /\ LoginStep =>
             \E tok \in tokens' :
                 tok.user_id = last'.uid /\ tok.exp = now + 7
        /\ \A tok \in tokens :
             ProtectedStep(tok) =>
                 /\ (tok.exp - 7 <= now /\ now < tok.exp) =>
                        (last'.code = 200 /\ last'.uid = tok.user_id)
                 /\ now > tok.exp =>
                        (last'.code = 401 /\ last'.error = "Token has expired")
      ]_vars

\* C7 witness: more than 7 days after the only login a protected request
\* was rejected as expired
C7_Witness ==
    /\ last.op = "profile"
    /\ last.code = 401
    /\ last.error = "Token has expired"
    /\ tokens # {}
    /\ \A tok \in tokens : tok.exp = 7 /\ now > tok.exp

\* C8: a book request passes the availability check whenever the ride it
\* reads is available, other requests in flight on that ride or not; and
\* the commit of a request in flight, on a ride still stored, answers 200
\* and leaves the ride booked by that request's user, whoever booked it
\* meanwhile.  So of two requests that both read before either commits
\* both succeed, and the ride ends with the user of the later commit.
C8_ConcurrentBookingsBothSucceed ==
    [][ inflight' # inflight =>
          /\ \A p \in Procs, cred \in tokens, r \in DOMAIN rides :
               (/\ inflight[p].pc = "idle" /\ inflight'[p].pc = "loaded"
                /\ Accepted(cred) /\ rides[r].ride_status = "available"
                /\ BookBegin(p, cred, r)) =>
                   /\ inflight'[p] = [pc |-> "loaded", uid |-> cred.user_id, ride |-> r]
                   /\ UNCHANGED <<rides, last>>
          /\ \A p \in Procs :
               (/\ inflight[p].pc = "loaded" /\ inflight[p].ride \in DOMAIN rides
                /\ BookCommit(p)) =>
                   /\ last'.op = "book_ride" /\ last'.code = 200
                   /\ last'.uid = inflight[p].uid
                   /\ rides' = [rides EXCEPT ![inflight[p].ride].ride_status = "booked",
                                             ![inflight[p].ride].user_id = inflight[p].uid]
      ]_vars

\* C8 witness: a booking has committed for one user while the request of
\* another user, which read the same ride when it was available, is still
\* in flight
C8_Witness ==
    /\ last.op = "book_ride"
    /\ last.code = 200
    /\ \E p \in Procs :
          /\ inflight[p].pc = "loaded"
          /\ inflight[p].ride = last.ride
          /\ last.ride \in DOMAIN rides
          /\ rides[last.ride].ride_status = "booked"
          /\ rides[last.ride].user_id = last.uid
          /\ inflight[p].uid # last.uid

\* C9: logout changes nothing the server holds, and every token that was
\* accepted before it is accepted after it
C9_LogoutInvalidatesNothing ==
    [][ \A cred \in Creds :
           Logout(cred) =>
               /\ UNCHANGED <<users, drivers, rides, tokens, now, inflight>>
               /\ last'.op = "logout"
               /\ \A tok \in tokens :
                     Accepted(tok) => (Accepted(tok) /\ TokenRequired(tok, FALSE).ok)'
      ]_vars

\* C9 witness: a logout succeeded and the token of its user is still
\* signed and short of its expiry
C9_Witness ==
    /\ last.op = "logout"
    /\ last.code = 200
    /\ \E tok \in tokens : tok.user_id = last.uid /\ Accepted(tok)

\* C10: the counts the admin dashboard reports are the numbers of stored
\* rides that are available, booked and completed, and of all rides; with
\* one admin, one farmer, one driver and one ride that the farmer booked
\* it reports total 1, booked 1, available 0.
C10_DashboardCounts ==
    (last.op = "admin_dashboard" /\ last.code = 200) =>
        /\ last.stats.total_rides = Cardinality(DOMAIN rides)
        /\ \A s \in {"available", "booked", "completed"} :
              last.stats[s \o "_rides"] =
                  Cardinality({r \in DOMAIN rides : rides[r].ride_status = s})
        /\ (/\ Cardinality(DOMAIN users) = 2
            /\ Cardinality(DOMAIN drivers) = 1
            /\ \E r \in DOMAIN rides, u \in DOMAIN users :
                  /\ DOMAIN rides = {r}
                  /\ ~users[u].is_admin
                  /\ rides[r] = [driver_id |-> 1, user_id |-> u,
                                 driver_name |-> SureshBody.driver_name,
                                 vehicle_type |-> SureshBody.vehicle_type,
                                 vehicle_id |-> SureshBody.vehicle_id,
                                 ride_status |-> "booked"])
           => last.stats = [total_rides |-> 1, available_rides |-> 0,
                            booked_rides |-> 1, completed_rides |-> 0]

\* C10 witness: the dashboard answered after the farmer booked the only ride
C10_Witness ==
    /\ last.op = "admin_dashboard"
    /\ last.code = 200
    /\ last.stats.booked_rides = 1
    /\ Cardinality(DOMAIN users) = 2
    /\ \E r \in DOMAIN rides :
          /\ DOMAIN rides = {r}
          /\ rides[r].ride_status = "booked"
          /\ rides[r].user_id \in DOMAIN users
          /\ ~users[rides[r].user_id].is_admin

\* the step is update_ride by a signed, unexpired token on a stored ride,
\* with a patch that carries a ride_status
StatusUpdate(cred, r, data) ==
    /\ Accepted(cred)
    /\ "ride_status" \in DOMAIN data
    /\ UpdateRide(cred, r, data)

DriverFields(row) ==
    [driver_name |-> row.driver_name, vehicle_type |-> row.vehicle_type,
     vehicle_id |-> row.vehicle_id]

\* C12: a ride that a step stores carries the id of a stored driver and that
\* driver's name, vehicle type and vehicle id as they are at that step; a
\* ride that a step keeps has the driver id and the three copied columns it
\* had, whatever the step is (update_driver on its driver, update_ride and
\* book_ride on the ride included).
C12_DriverFieldsFrozen ==
    [][ /\ \A r \in DOMAIN rides' \ DOMAIN rides :
              /\ rides'[r].driver_id \in DOMAIN drivers
              /\ DriverFields(rides'[r]) = DriverFields(drivers[rides'[r].driver_id])
        /\ \A r \in DOMAIN rides \cap DOMAIN rides' :
              /\ rides'[r].driver_id = rides[r].driver_id
              /\ DriverFields(rides'[r]) = DriverFields(rides[r])
      ]_vars

\* C12 witness: a booked ride still carries the name its driver had before
\* the driver was renamed
C12_Witness ==
    \E r \in DOMAIN rides :
        /\ rides[r].ride_status = "booked"
        /\ rides[r].driver_id \in DOMAIN drivers
        /\ drivers[rides[r].driver_id].driver_name = "Ganesh Desai"
        /\ rides[r].driver_name = "Suresh Jadhav"

\* C13: a ride that a successful create_ride stores is available and has no
\* booking user; a ride comes to be booked only in a step of book_ride or
\* update_ride, and comes to be completed only in a step of update_ride.
C13_InitialStatusAndTransitions ==
    [][ \A r \in DOMAIN rides' :
          LET before == IF r \in DOMAIN rides THEN rides[r].ride_status ELSE "none"
              after == rides'[r].ride_status
          IN
          /\ (before = "none" /\ last'.op = "create_ride" /\ last'.code = 201) =>
                 after = "available" /\ rides'[r].user_id = NULL
          /\ (before # "booked" /\ after = "booked") =>
                 last'.op \in {"book_ride", "update_ride"}
          /\ (before # "completed" /\ after = "completed") =>
                 last'.op = "update_ride"
      ]_vars

\* C14: book_ride by an authenticated user with a ride id that is not stored
\* answers 404, and on a stored ride whose status is not available answers
\* 400; a book_ride that answers 404 or 400 leaves every ride, driver and
\* user as it was.
C14_FailedBookChangesNothing ==
    [][ last'.op = "book_ride" =>
          /\ \A cred \in tokens, r \in RideIds :
                (Accepted(cred) /\ BookRide(cred, r)) =>
                    /\ r \notin DOMAIN rides => last'.code = 404
                    /\ (r \in DOMAIN rides /\ rides[r].ride_status # "available") =>
                           last'.code = 400
          /\ last'.code \in {404, 400} =>
                rides' = rides /\ drivers' = drivers /\ users' = users
      ]_vars

\* C14 witness: a book was answered 404 while a ride is stored and booked
C14_Witness ==
    /\ last.op = "book_ride"
    /\ last.code = 404
    /\ \E r \in DOMAIN rides : rides[r].ride_status = "booked"

\* the step is a successful book_ride, or a successful update_ride with
\* ride_status 'booked' in its patch, on ride r with credential cred (the
\* response names the ride and the caller)
Books(cred, r) ==
    /\ last'.code = 200
    /\ last'.ride = r
    /\ last'.uid = cred.user_id
    /\ \/ last'.op = "book_ride" /\ BookRide(cred, r)
       \/ /\ last'.op = "update_ride"
          /\ \E data \in RidePatches :
                /\ "ride_status" \in DOMAIN data
                /\ data.ride_status = "booked"
                /\ UpdateRide(cred, r, data)

\* C15: every booking user is a stored user; no step removes a user; a step
\* that books ride r (book_ride, or update_ride with status 'booked') leaves
\* the ride with its authenticated caller as booking user, whatever user_id
\* the request body names; and any other step leaves the booking user of
\* every ride it keeps as it was, a ride it stores having none.  So a
\* booking user is always the caller of the latest booking of the ride.
C15_BookingUserIsCaller ==
    /\ [](\A r \in DOMAIN rides :
             rides[r].user_id # NULL => rides[r].user_id \in DOMAIN users)
    /\ [][ /\ DOMAIN users \subseteq DOMAIN users'
           /\ \A r \in DOMAIN rides' :
                 IF \E cred \in tokens : Books(cred, r)
                 THEN \A cred \in tokens :
                         Books(cred, r) =>
                             /\ Accepted(cred)
                             /\ rides'[r].user_id = cred.user_id
                 ELSE rides'[r].user_id =
                         IF r \in DOMAIN rides THEN rides[r].user_id ELSE NULL
         ]_vars

\* C15 witness: a book has succeeded and two rides are held by two users
C15_Witness ==
    /\ last.op = "book_ride"
    /\ last.code = 200
    /\ \E r1, r2 \in DOMAIN rides :
          /\ rides[r1].user_id # NULL
          /\ rides[r2].user_id # NULL
          /\ rides[r1].user_id # rides[r2].user_id

====
